---- MODULE Spec2Model ----
(***************************************************************************)
(* Model of google_to_bitwarden_converter.py: convert_google_to_bitwarden  *)
(* reads a Google Passwords CSV, groups its rows by the 'name' field and   *)
(* writes one Bitwarden login item per name to a JSON file.                *)
(*                                                                         *)
(* Python strings are sequences of characters.  A character is a TLA+      *)
(* string of length one, "\n" for a newline; the fixed phrases of the      *)
(* conflict note are one element each (they hold no leading or trailing    *)
(* whitespace, so str.strip() treats them as it treats a letter).          *)
(* Python's None is the value None below, distinct from every string.      *)
(***************************************************************************)
EXTENDS Integers, Sequences, FiniteSets, TLC

VARIABLES
    pc,               \* position in convert_google_to_bitwarden
    fieldnames,       \* reader.fieldnames: the header of the CSV file, or None
    rows,             \* the data rows of the CSV file, as far as they are read
    pos,              \* number of rows the `for row in reader` loop has taken
    grouped_items,    \* the dict name -> item, in insertion order
    bitwarden_output, \* the document assembled after the loop
    json_file,        \* content of the file at output_json_path
    prior,            \* content of that file when the run started
    run,              \* 1 for the first invocation, 2 for a second one
    exit_code         \* "none" while running, then the exit status

vars == <<pc, fieldnames, rows, pos, grouped_items, bitwarden_output,
          json_file, prior, run, exit_code>>

-----------------------------------------------------------------------------
(* Bounds *)

MaxRows == 3

MaxRunRows == 2

-----------------------------------------------------------------------------
(* Python values *)

None == <<"<None>">>

S(c) == <<c>>

Whitespace == {" ", "\n"}

\* bool(v) for a str or None
Truthy(v) == v # None /\ v # <<>>

RECURSIVE LStrip(_)
LStrip(s) ==
    IF s # <<>> /\ Head(s) \in Whitespace THEN LStrip(Tail(s)) ELSE s

RECURSIVE RStrip(_)
RStrip(s) ==
    IF s # <<>> /\ s[Len(s)] \in Whitespace
    THEN RStrip(SubSeq(s, 1, Len(s) - 1))
    ELSE s

\* str.strip()
Strip(s) == RStrip(LStrip(s))

\* dict.get(key, default) on a csv.DictReader row
Get(row, key, default) == IF key \in DOMAIN row THEN row[key] ELSE default

-----------------------------------------------------------------------------
(* The order-preserving dict grouped_items: a sequence of entries           *)
(* [key, value] in insertion order.                                         *)

Keys(d) == {d[i].key : i \in 1..Len(d)}

IndexOf(d, k) == CHOOSE i \in 1..Len(d) : d[i].key = k

Lookup(d, k) == d[IndexOf(d, k)].value

\* a dict that moves a key to the end whenever it is assigned
SetItemMovingToEnd(d, k, v) ==
    Append(SelectSeq(d, LAMBDA e : e.key # k), [key |-> k, value |-> v])

\* d[k] = v: a new key goes to the end, an existing key keeps its place
SetItem(d, k, v) ==
    IF k \in Keys(d)
    THEN [d EXCEPT ![IndexOf(d, k)].value = v]
    ELSE Append(d, [key |-> k, value |-> v])

\* list(d.values())
Values(d) == [i \in 1..Len(d) |-> d[i].value]

-----------------------------------------------------------------------------
(* The loop body, lines 33-84 *)

expected_headers == {"name", "url", "username", "password"}

\* x in a list
In(x, list) == \E i \in 1..Len(list) : list[i] = x

\* the header test with any() for all()
HeaderOkAny(fn) == \E h \in expected_headers : In(h, fn)

\* line 25: all(h in reader.fieldnames for h in expected_headers)
HeaderOk(fn) == \A h \in expected_headers : In(h, fn)

UriEntry(url) == [uri |-> url, match |-> None]

NewItem(name, url, username, password, note) ==
    [type     |-> 1,
     name     |-> name,
     notes    |-> IF Truthy(note) THEN note ELSE None,
     favorite |-> FALSE,
     login    |-> [uris     |-> <<UriEntry(url)>>,
                   username |-> username,
                   password |-> password,
                   totp     |-> None],
     fields   |-> <<>>]

MARKER == <<"--- AUTO-MERGE WARNING ---">>

EXPLANATION ==
    <<"An entry for the URL below had different credentials and was not merged automatically:">>

conflict_note(url, username) ==
    <<"\n", "\n">> \o MARKER \o <<"\n">> \o EXPLANATION \o <<"\n">>
    \o <<"URL:", " ">> \o url \o <<"\n">>
    \o <<"Username:", " ">> \o username \o <<"\n">>

\* the skip test without its third operand
SkippedIgnoringUsername(name, url, username) ==
    ~Truthy(name) \/ ~Truthy(url)

Skipped(name, url, username) ==
    ~Truthy(name) \/ ~Truthy(url) \/ ~Truthy(username)

\* the conflict test asking for both to differ
ConflictsBoth(item, username, password) ==
    item.login.username # username /\ item.login.password # password

\* the conflict test comparing the stored username with the row's password
ConflictsMixedUp(item, username, password) ==
    item.login.username # username \/ item.login.username # password

Conflicts(item, username, password) ==
    item.login.username # username \/ item.login.password # password

\* the annotation stored without .strip()
AddConflictNoteUnstripped(item, url, username) ==
    IF Truthy(item.notes)
    THEN [item EXCEPT !.notes = item.notes \o conflict_note(url, username)]
    ELSE [item EXCEPT !.notes = conflict_note(url, username)]

AddConflictNote(item, url, username) ==
    IF Truthy(item.notes)
    THEN [item EXCEPT !.notes = item.notes \o conflict_note(url, username)]
    ELSE [item EXCEPT !.notes = Strip(conflict_note(url, username))]

\* the merge taking over the credentials of the row it merges
MergeRowLastWins(item, url, username, password) ==
    LET appended == [item EXCEPT !.login.uris = Append(item.login.uris, UriEntry(url))]
    IN  IF Conflicts(appended, username, password)
        THEN [AddConflictNote(appended, url, username)
                 EXCEPT !.login.username = username,
                        !.login.password = password]
        ELSE appended

\* the merge leaving out a url the item already holds
MergeRowDedup(item, url, username, password) ==
    LET appended ==
            IF \E i \in 1..Len(item.login.uris) : item.login.uris[i].uri = url
            THEN item
            ELSE [item EXCEPT !.login.uris = Append(item.login.uris, UriEntry(url))]
    IN  IF Conflicts(appended, username, password)
        THEN AddConflictNote(appended, url, username)
        ELSE appended

MergeRow(item, url, username, password) ==
    LET appended == [item EXCEPT !.login.uris = Append(item.login.uris, UriEntry(url))]
    IN  IF Conflicts(appended, username, password)
        THEN AddConflictNote(appended, url, username)
        ELSE appended

\* grouped_items after one pass of the loop body over `row`
ProcessRow(d, row) ==
    LET name     == Get(row, "name", None)
        url      == Get(row, "url", None)
        username == Get(row, "username", None)
        password == Get(row, "password", None)
        note     == Get(row, "note", <<>>)
    IN  IF Skipped(name, url, username) THEN d
        ELSE IF name \notin Keys(d)
        THEN SetItem(d, name, NewItem(name, url, username, password, note))
        ELSE SetItem(d, name, MergeRow(Lookup(d, name), url, username, password))

-----------------------------------------------------------------------------
(* Input domains *)

FullHeader == <<"name", "url", "username", "password", "note">>

\* every combination of two names, urls, usernames (one ending in a blank),
\* passwords (one empty) and notes (one empty): the rows the loop accepts
AcceptedRows ==
    [name     : {S("a"), S("b")},
     url      : {S("x"), S("y")},
     username : {S("u"), <<"v", " ">>},
     password : {<<>>, S("p")},
     note     : {<<>>, S("n")}]

BaseRow ==
    [name |-> S("b"), url |-> S("y"), username |-> S("u"),
     password |-> S("p"), note |-> S("n")]

\* a line that ends after its first k values: the DictReader fills the
\* columns left over with None
ShortRow(r, k) ==
    [f \in DOMAIN r |->
        IF \E i \in 1..k : FullHeader[i] = f THEN r[f] ELSE None]

\* rows whose name, url or username is empty, and lines that end before the
\* url or before the username
SkippedRows ==
    {[BaseRow EXCEPT ![f] = <<>>] : f \in {"name", "url", "username"}}
    \cup {ShortRow(BaseRow, 1), ShortRow(BaseRow, 2)}

Rows == AcceptedRows \cup SkippedRows

\* headers of the whole-run specification: with and without the optional
\* note column, without password, without name
Headers ==
    {FullHeader,
     <<"name", "url", "username", "password">>,
     <<"name", "url", "username">>,
     <<"url", "username", "password", "note">>}

RunRowsWithNote ==
    [name     : {<<>>, S("a"), S("b")},
     url      : {S("x")},
     username : {S("u"), S("v")},
     password : {S("p")},
     note     : {<<>>, S("n")}]

Columns(fn) == {fn[i] : i \in 1..Len(fn)}

\* the rows a file with header fn can hold: one value per column of fn
RunRows(fn) ==
    {[f \in Columns(fn) \cap DOMAIN r |-> r[f]] : r \in RunRowsWithNote}

-----------------------------------------------------------------------------
(* Steps of one run *)

PriorContents == <<[chunk |-> "prior contents"]>>

NoDocument == [encrypted |-> FALSE, folders |-> <<>>, items |-> <<>>, built |-> FALSE]

\* json.dump writes the document piece by piece: the opening of the object
\* with its first two members, each item, the closing
Serialise(doc) ==
    <<[chunk |-> "open", encrypted |-> doc.encrypted, folders |-> doc.folders]>>
    \o [i \in 1..Len(doc.items) |-> [chunk |-> "item", item |-> doc.items[i]]]
    \o <<[chunk |-> "close"]>>

\* sys.exit(1), and the end of the script after a successful return
Exit(code) ==
    /\ pc' = "exited"
    /\ exit_code' = code

\* lines 20-29: the input opens and its header holds the expected names
OpenCsv ==
    /\ pc = "start"
    /\ fieldnames # None
    /\ HeaderOk(fieldnames)
    /\ pc' = "reading"
    /\ UNCHANGED <<fieldnames, rows, pos, grouped_items, bitwarden_output,
                   json_file, prior, run, exit_code>>

\* lines 20, 87-89: open() raises FileNotFoundError
CsvNotFound ==
    /\ pc = "start"
    /\ Exit("1")
    /\ UNCHANGED <<fieldnames, rows, pos, grouped_items, bitwarden_output,
                   json_file, prior, run>>

\* lines 25-29: a header without one of the expected names
BadHeader ==
    /\ pc = "start"
    /\ fieldnames # None
    /\ ~HeaderOk(fieldnames)
    /\ Exit("1")
    /\ UNCHANGED <<fieldnames, rows, pos, grouped_items, bitwarden_output,
                   json_file, prior, run>>

\* lines 25, 90-92: an empty file has fieldnames None, `h in None` raises
\* TypeError, which `except Exception` turns into sys.exit(1)
NoHeader ==
    /\ pc = "start"
    /\ fieldnames = None
    /\ Exit("1")
    /\ UNCHANGED <<fieldnames, rows, pos, grouped_items, bitwarden_output,
                   json_file, prior, run>>

\* lines 31-84: one iteration of `for row in reader`.  The first run finds
\* out what the file holds, a second run reads the same rows again.
ReadRow(row) ==
    /\ pc = "reading"
    /\ IF pos < Len(rows) THEN row = rows[pos + 1] ELSE run = 1
    /\ rows' = IF pos < Len(rows) THEN rows ELSE Append(rows, row)
    /\ pos' = pos + 1
    /\ grouped_items' = ProcessRow(grouped_items, row)
    /\ UNCHANGED <<pc, fieldnames, bitwarden_output, json_file, prior, run,
                   exit_code>>

\* lines 31, 90-92: the reader raises while iterating (UnicodeDecodeError,
\* csv.Error, OSError)
ReadError ==
    /\ pc = "reading"
    /\ Exit("1")
    /\ UNCHANGED <<fieldnames, rows, pos, grouped_items, bitwarden_output,
                   json_file, prior, run>>

\* the document assembled from a container without an order of its own
AssembleUnordered ==
    /\ pc = "reading"
    /\ pos = Len(rows)
    /\ \E p \in Permutations(1..Len(grouped_items)) :
           bitwarden_output' =
               [encrypted |-> FALSE,
                folders   |-> <<>>,
                items     |-> [i \in 1..Len(grouped_items) |->
                                  grouped_items[p[i]].value],
                built     |-> TRUE]
    /\ pc' = "assembled"
    /\ UNCHANGED <<fieldnames, rows, pos, grouped_items, json_file, prior,
                   run, exit_code>>

\* lines 95-99: the reader is exhausted and the document is assembled
Assemble ==
    /\ pc = "reading"
    /\ pos = Len(rows)
    /\ bitwarden_output' = [encrypted |-> FALSE,
                            folders   |-> <<>>,
                            items     |-> Values(grouped_items),
                            built     |-> TRUE]
    /\ pc' = "assembled"
    /\ UNCHANGED <<fieldnames, rows, pos, grouped_items, json_file, prior,
                   run, exit_code>>

\* line 103: open(output_json_path, 'w') creates the file or truncates it
OpenJson ==
    /\ pc = "assembled"
    /\ json_file' = <<>>
    /\ pc' = "writing"
    /\ UNCHANGED <<fieldnames, rows, pos, grouped_items, bitwarden_output,
                   prior, run, exit_code>>

\* lines 103, 110-112: open() raises (no permission, no such directory)
OpenJsonFails ==
    /\ pc = "assembled"
    /\ Exit("1")
    /\ UNCHANGED <<fieldnames, rows, pos, grouped_items, bitwarden_output,
                   json_file, prior, run>>

\* line 104: json.dump writes the next piece
WriteChunk ==
    /\ pc = "writing"
    /\ Len(json_file) < Len(Serialise(bitwarden_output))
    /\ json_file' = Append(json_file,
                           Serialise(bitwarden_output)[Len(json_file) + 1])
    /\ UNCHANGED <<pc, fieldnames, rows, pos, grouped_items, bitwarden_output,
                   prior, run, exit_code>>

\* lines 104, 110-112: a write, or the flush when the file closes, raises
\* OSError (disk full, quota, device error); what was written stays
WriteFails ==
    /\ pc = "writing"
    /\ Exit("1")
    /\ UNCHANGED <<fieldnames, rows, pos, grouped_items, bitwarden_output,
                   json_file, prior, run>>

\* lines 105-109, 131: everything is written, the function returns and the
\* script ends
Finish ==
    /\ pc = "writing"
    /\ Len(json_file) = Len(Serialise(bitwarden_output))
    /\ Exit("0")
    /\ UNCHANGED <<fieldnames, rows, pos, grouped_items, bitwarden_output,
                   json_file, prior, run>>

\* lines 115-131: the script is started again on the same two paths
Rerun ==
    /\ pc = "exited"
    /\ exit_code = "0"
    /\ run = 1
    /\ pc' = "start"
    /\ pos' = 0
    /\ grouped_items' = <<>>
    /\ bitwarden_output' = NoDocument
    /\ prior' = json_file
    /\ run' = 2
    /\ exit_code' = "none"
    /\ UNCHANGED <<fieldnames, rows, json_file>>

StartOfRun ==
    /\ pc = "start"
    /\ rows = <<>>
    /\ pos = 0
    /\ grouped_items = <<>>
    /\ bitwarden_output = NoDocument
    /\ json_file = PriorContents
    /\ prior = PriorContents
    /\ run = 1
    /\ exit_code = "none"

\* The conversion of a readable file with the full header
Init ==
    /\ StartOfRun
    /\ fieldnames = FullHeader

Next ==
    \/ OpenCsv
    \/ \E row \in Rows : pos < MaxRows /\ ReadRow(row)
    \/ Assemble

Spec == Init /\ [][Next]_vars

\* The whole run, with every failure of its environment, and a second run
InitRun ==
    /\ StartOfRun
    /\ fieldnames \in Headers \cup {None}

NextRun ==
    \/ OpenCsv
    \/ CsvNotFound
    \/ BadHeader
    \/ NoHeader
    \/ \E row \in RunRows(fieldnames) : pos < MaxRunRows /\ ReadRow(row)
    \/ ReadError
    \/ Assemble
    \/ OpenJson
    \/ OpenJsonFails
    \/ WriteChunk
    \/ WriteFails
    \/ Finish
    \/ Rerun

SpecRun == InitRun /\ [][NextRun]_vars

-----------------------------------------------------------------------------
(* What the claims speak of, stated from the input rows alone *)

\* the rows the loop has taken so far, in input order
Taken == SubSeq(rows, 1, pos)

NonEmpty(v) == v # None /\ Len(v) > 0

\* a row whose name, url and username are all non-empty
IsAccepted(r) == NonEmpty(r.name) /\ NonEmpty(r.url) /\ NonEmpty(r.username)

\* the accepted rows named n, in input order
RowsNamed(n) == SelectSeq(Taken, LAMBDA r : IsAccepted(r) /\ r.name = n)

\* the items held by the grouping map and, once assembled, by the document
ItemsNow ==
    {grouped_items[i].value : i \in 1..Len(grouped_items)}
    \cup {bitwarden_output.items[i] : i \in 1..Len(bitwarden_output.items)}

Assembled == pc = "assembled" /\ bitwarden_output.built

DiffersFrom(first, r) ==
    r.username # first.username \/ r.password # first.password

\* C1: every item's login.username and login.password are those of the
\* first accepted row with the item's name, whatever later rows with that
\* name hold.
C1_FirstCredentialsKept ==
    \A it \in ItemsNow :
        LET rs == RowsNamed(it.name)
        IN  /\ rs # <<>>
            /\ it.login.username = rs[1].username
            /\ it.login.password = rs[1].password

\* a document with an item whose second row has another username and
\* another password than its first
C1_Witness ==
    /\ Assembled
    /\ \E i \in 1..Len(bitwarden_output.items) :
           LET rs == RowsNamed(bitwarden_output.items[i].name)
           IN  /\ Len(rs) >= 2
               /\ rs[2].username # rs[1].username
               /\ rs[2].password # rs[1].password

\* C2: every item's login.uris has one entry per accepted row with the
\* item's name, the i-th entry holding the url of the i-th such row;
\* duplicates stay, and a skipped row adds none.
C2_UrisFollowRows ==
    \A it \in ItemsNow :
        LET rs == RowsNamed(it.name)
        IN  /\ Len(it.login.uris) = Len(rs)
            /\ \A i \in 1..Len(rs) : it.login.uris[i].uri = rs[i].url

\* an item with the same url twice, one skipped row carrying its name
C2_Witness ==
    /\ Assembled
    /\ \E i \in 1..Len(bitwarden_output.items) :
           LET it == bitwarden_output.items[i]
           IN  /\ Len(it.login.uris) = 2
               /\ it.login.uris[1] = it.login.uris[2]
               /\ \E k \in 1..Len(Taken) :
                      Taken[k].name = it.name /\ ~IsAccepted(Taken[k])

AcceptedNames ==
    {Taken[k].name : k \in {j \in 1..Len(Taken) : IsAccepted(Taken[j])}}

\* C3: there are as many items as distinct names among the accepted rows,
\* in the grouping map and in the assembled document.
C3_OneItemPerAcceptedName ==
    /\ Len(grouped_items) = Cardinality(AcceptedNames)
    /\ bitwarden_output.built
           => Len(bitwarden_output.items) = Cardinality(AcceptedNames)

\* a skipped row with a name no accepted row has, and an accepted row with
\* an empty password
C3_Witness ==
    /\ Assembled
    /\ Len(bitwarden_output.items) = 1
    /\ \E k \in 1..Len(Taken) :
           /\ ~IsAccepted(Taken[k])
           /\ NonEmpty(Taken[k].name)
           /\ Taken[k].name \notin AcceptedNames
    /\ \E k \in 1..Len(Taken) :
           IsAccepted(Taken[k]) /\ Taken[k].password = <<>>

RECURSIVE FirstSeen(_, _)
FirstSeen(rs, seen) ==
    IF rs = <<>> THEN seen
    ELSE FirstSeen(Tail(rs),
                   IF IsAccepted(Head(rs))
                      /\ \A i \in 1..Len(seen) : seen[i] # Head(rs).name
                   THEN Append(seen, Head(rs).name)
                   ELSE seen)

\* C4: the keys of the grouping map are pairwise distinct, and they, like
\* the names of the document's items, stand in the order in which the
\* names first occur among the accepted rows.
C4_FirstSeenOrder ==
    /\ \A i, j \in 1..Len(grouped_items) :
           grouped_items[i].key = grouped_items[j].key => i = j
    /\ [i \in 1..Len(grouped_items) |-> grouped_items[i].key]
           = FirstSeen(Taken, <<>>)
    /\ bitwarden_output.built
           => [i \in 1..Len(bitwarden_output.items) |->
                   bitwarden_output.items[i].name] = FirstSeen(Taken, <<>>)

\* two items, the third row appended to the first of them
C4_Witness ==
    /\ Assembled
    /\ Len(Taken) = 3
    /\ Len(bitwarden_output.items) = 2
    /\ Len(bitwarden_output.items[1].login.uris) = 2
    /\ IsAccepted(Taken[3])
    /\ Taken[3].name = bitwarden_output.items[1].name

-----------------------------------------------------------------------------
(* Conflict annotations *)

\* the number of annotation blocks in a notes value: each block holds the
\* marker once, and no input value holds it
Blocks(notes) ==
    IF notes = None THEN 0
    ELSE Cardinality({i \in 1..Len(notes) : notes[i] = "--- AUTO-MERGE WARNING ---"})

\* C7: an item's notes hold as many annotation blocks as there are later
\* accepted rows with its name whose username or password differs from the
\* first row's; this holds after every row, so a block is added exactly
\* when such a row is taken, and never for a row with the first row's
\* credentials.
C7_OneBlockPerConflict ==
    \A it \in ItemsNow :
        LET rs == RowsNamed(it.name)
        IN  Blocks(it.notes)
                = Cardinality({i \in 2..Len(rs) : DiffersFrom(rs[1], rs[i])})

\* an item of three rows: the second differs in the password alone, the
\* third repeats the first row's credentials after the conflict
C7_Witness ==
    /\ Assembled
    /\ \E i \in 1..Len(bitwarden_output.items) :
           LET it == bitwarden_output.items[i]
               rs == RowsNamed(it.name)
           IN  /\ Len(rs) = 3
               /\ rs[2].username = rs[1].username
               /\ rs[2].password # rs[1].password
               /\ ~DiffersFrom(rs[1], rs[3])
               /\ Blocks(it.notes) = 1

\* t occurs in s as a run of consecutive characters
Contains(s, t) ==
    \E k \in 0..(Len(s) - Len(t)) : SubSeq(s, k + 1, k + Len(t)) = t

\* t is s without the whitespace at its two ends
IsTrimmed(t, s) ==
    \E i, j \in 1..Len(s) :
        /\ i <= j
        /\ t = SubSeq(s, i, j)
        /\ \A k \in 1..(i - 1) : s[k] \in {" ", "\n"}
        /\ \A k \in (j + 1)..Len(s) : s[k] \in {" ", "\n"}
        /\ s[i] \notin {" ", "\n"}
        /\ s[j] \notin {" ", "\n"}

\* the text of an annotation block for a row: two newlines, then four lines
BlockText(r) ==
    <<"\n", "\n",
      "--- AUTO-MERGE WARNING ---", "\n",
      "An entry for the URL below had different credentials and was not merged automatically:", "\n",
      "URL:", " ">> \o r.url \o <<"\n", "Username:", " ">> \o r.username \o <<"\n">>

\* the row taken by a step of the loop
RowTaken == rows'[pos']

\* C8: when a row conflicts with its item, the block built for it holds the
\* marker, the row's url and the row's username and is made of these alone
\* (the password has no part in it); notes that had content become the old
\* notes, a blank line (two newlines) and the rest of the block; notes that
\* were unset become the block without the whitespace at its ends, which
\* neither starts nor ends with a newline.  The stored notes then hold the
\* marker and the url, and the username too unless the notes were unset and
\* the username ends in whitespace (the trimming takes that away as well).
C8_BlockAppended ==
    [][pos' = pos + 1 =>
        \A i \in 1..Len(grouped_items) :
            LET old == grouped_items[i].value
                new == grouped_items'[i].value
                b   == BlockText(RowTaken)
            IN  (/\ IsAccepted(RowTaken)
                 /\ grouped_items[i].key = RowTaken.name
                 /\ \/ RowTaken.username # old.login.username
                    \/ RowTaken.password # old.login.password)
                =>
                 /\ Contains(b, <<"--- AUTO-MERGE WARNING ---">>)
                 /\ Contains(b, RowTaken.url)
                 /\ Contains(b, RowTaken.username)
                 /\ SubSeq(b, 1, 2) = <<"\n", "\n">>
                 /\ IF old.notes # None /\ old.notes # <<>>
                    THEN new.notes = old.notes \o b
                    ELSE /\ IsTrimmed(new.notes, b)
                         /\ new.notes[1] # "\n"
                         /\ new.notes[Len(new.notes)] # "\n"
                 /\ Contains(new.notes, <<"--- AUTO-MERGE WARNING ---">>)
                 /\ Contains(new.notes, RowTaken.url)
                 /\ (\/ old.notes # None /\ old.notes # <<>>
                     \/ RowTaken.username[Len(RowTaken.username)] \notin {" ", "\n"})
                        => Contains(new.notes, RowTaken.username)]_vars

\* an item without a note of its own after two conflicting rows: its notes
\* start with the marker of the trimmed first block and hold a second block
\* behind a blank line
C8_Witness ==
    \E i \in 1..Len(grouped_items) :
        LET it == grouped_items[i].value
        IN  /\ RowsNamed(it.name)[1].note = <<>>
            /\ Blocks(it.notes) = 2
            /\ it.notes[1] = "--- AUTO-MERGE WARNING ---"
            /\ Contains(it.notes, <<"\n", "\n", "--- AUTO-MERGE WARNING ---">>)

\* C10: a row taken for an existing item whose username and password equal
\* the stored ones appends one uri entry to that item and changes nothing
\* else in the grouping map (not the item's notes, whatever note the row
\* carries, nor its credentials, nor any other item); a skipped row leaves
\* the grouping map as it is.
C10_FrameOfMerge ==
    [][pos' = pos + 1 =>
        /\ ~IsAccepted(RowTaken) => grouped_items' = grouped_items
        /\ \A i \in 1..Len(grouped_items) :
               (/\ IsAccepted(RowTaken)
                /\ grouped_items[i].key = RowTaken.name
                /\ RowTaken.username = grouped_items[i].value.login.username
                /\ RowTaken.password = grouped_items[i].value.login.password)
               =>
                grouped_items' =
                    [grouped_items EXCEPT ![i].value.login.uris =
                        Append(@, [uri |-> RowTaken.url, match |-> None])]]_vars

\* two items, one of them merged with a second row of equal credentials
\* that carries a note of its own, the item's notes still unset
C10_Witness ==
    /\ Len(grouped_items) = 2
    /\ \E i \in 1..Len(grouped_items) :
           LET it == grouped_items[i].value
               rs == RowsNamed(it.name)
           IN  /\ Len(rs) = 2
               /\ ~DiffersFrom(rs[1], rs[2])
               /\ rs[2].note # <<>>
               /\ it.notes = None
               /\ Len(it.login.uris) = 2

-----------------------------------------------------------------------------
(* The whole run *)

HeaderLacksAField ==
    \E h \in {"name", "url", "username", "password"} :
        \A i \in 1..Len(fieldnames) : fieldnames[i] # h

\* C5: with one of name, url, username, password missing from the header,
\* the run takes no row, never opens the output file, whose content stays
\* what it was, and ends with a status other than 0.
C5_BadHeaderAborts ==
    HeaderLacksAField =>
        /\ pc \in {"start", "exited"}
        /\ pos = 0
        /\ grouped_items = <<>>
        /\ json_file = prior
        /\ pc = "exited" => exit_code = "1"

\* the run on a header without password has ended
C5_Witness ==
    /\ fieldnames = <<"name", "url", "username">>
    /\ pc = "exited"
    /\ exit_code = "1"

\* C6: a run that ends in failure leaves the output file either as it was
\* before the run or holding the whole document.
C6_NoPartialOutput ==
    (pc = "exited" /\ exit_code # "0") =>
        \/ json_file = prior
        \/ bitwarden_output.built /\ json_file = Serialise(bitwarden_output)

====
